---- MODULE Spec2Model ----
(***************************************************************************)
(* The NeurIPS crawler (scrapper.py): the run driver main, the per-year    *)
(* orchestrator process_year with its ThreadPoolExecutor, the worker task  *)
(* process_paper (scrape_paper_data, download_pdf, append_to_csv), the     *)
(* shared lock, the CSV file and the PDF folder.                           *)
(*                                                                         *)
(* The CSV file is a sequence of written chunks <<id, part>>: a row is     *)
(* written as two chunks, part 1 (the leading fields) and part 2 (the      *)
(* trailing fields and the line terminator).  The header is the single     *)
(* chunk Hdr.  A line of the file is what lies between line terminators.   *)
(***************************************************************************)
EXTENDS Integers, Sequences, FiniteSets, TLC

\* ---------------------------------------------------------------- bounds
NumYears == 2            \* YEARS is cut to its first NumYears years
MaxTasks == 2            \* paper links on the whole site (crawl specification)
MaxWorkers == 5          \* ThreadPoolExecutor(max_workers=5)
FirstYear == 2020        \* YEARS = range(2020, 2025)

YEARS == FirstYear .. (FirstYear + NumYears - 1)
PoolLinks == MaxWorkers + 1      \* a year that over-fills the pool

\* Titles are character sequences.  TitleA is a plain title; TitleB differs from
\* it only in a character safe_title drops.
TitleA == <<"a">>
TitleB == <<"a", "/">>
Titles == {TitleA, TitleB}

VARIABLES
  site,        \* the web site: year -> sequence of detail pages
  mainpc,      \* where the main thread is
  year,        \* the year main's loop is at
  exc,         \* an exception is propagating out of process_year
  pc,          \* task -> where the worker running it is
  result,      \* task -> what process_paper returned to its future
  collected,   \* futures main has accepted from as_completed
  lock,        \* holder of threading.Lock, or "free"
  csv,         \* chunks of CSV_FILE
  files,       \* PDF_FOLDER: filename -> content, or "absent"
  all_papers,  \* the aggregate list
  calls,       \* task -> its calls so far: download_pdf entered (dl) and how each
               \*   ended (out), PDF requests (get), file writes (wr),
               \*   append_to_csv entered (app), times a worker took it (run)
  appendFailed,\* some append_to_csv call raised
  preFinal,    \* CSV_FILE as it was when the final write opened it
  pace,        \* detail requests begun since main last accepted a result of the
               \*   year (begun), and whether it has accepted one (accepted);
               \*   kept only where a specification asks for it (counting)
  index_page,  \* get_paper_links alone: the year asked for and the index page
  link_list,   \* get_paper_links alone: the list the call returned
  linkpc,      \* get_paper_links alone: called, or returned
  detail_page, \* scrape_paper_data alone: the detail page requested
  paper_data,  \* scrape_paper_data alone: what the call returned
  scrapepc,    \* scrape_paper_data alone: called, or returned
  input_csv,   \* annotation.py: the label column of CSV_FILE
  output_csv,  \* annotation.py: the label column of OUTPUT_CSV_FILE
  df,          \* annotation.py: the label column of the DataFrame
  idx,         \* annotation.py: the row the loop of annotate_papers is at
  annpc,       \* annotation.py: where the program is
  runs,        \* annotation.py: times the program was started
  classified,  \* annotation.py: row -> classify_paper calls made for it, all runs
  last_call    \* annotation.py: the last classify_paper call: row, response, label

crawlVars == <<site, mainpc, year, exc, pc, result, collected, lock, csv, files,
               all_papers, calls, appendFailed, preFinal, pace>>
linkVars == <<index_page, link_list, linkpc>>
scrapeVars == <<detail_page, paper_data, scrapepc>>
annVars == <<input_csv, output_csv, df, idx, annpc, runs, classified, last_call>>
sideVars == <<linkVars, scrapeVars, annVars>>
vars == <<crawlVars, sideVars>>

\* ------------------------------------------------------------ the inputs
Page == [ok : BOOLEAN, pdf : BOOLEAN, title : Titles]
DownPage == [ok |-> FALSE, pdf |-> FALSE, title |-> TitleA]

RECURSIVE SumLen(_, _)
SumLen(f, S) ==
  IF S = {} THEN 0
  ELSE LET y == CHOOSE z \in S : TRUE IN Len(f[y]) + SumLen(f, S \ {y})

SeqsUpTo(S, n) == UNION {[1 .. k -> S] : k \in 0 .. n}

\* Pages of the crawl specification: down, or up with one title.
CrawlPages == {DownPage} \cup {p \in Page : p.ok /\ p.title = TitleA}
CrawlSites ==
  {s \in [YEARS -> SeqsUpTo(CrawlPages, MaxTasks)] : SumLen(s, YEARS) <= MaxTasks}

\* Sites of the pool specification: the first year's index page lists one link
\* more than the pool has workers, and at most one of the pages is up.
PoolIndex ==
  {ps \in [1 .. PoolLinks -> CrawlPages] :
     Cardinality({i \in 1 .. PoolLinks : ps[i].ok}) <= 1}
PoolSites == {[y \in YEARS |-> IF y = FirstYear THEN ps ELSE <<>>] : ps \in PoolIndex}

\* Sites of the pacing specification: the first year's index page lists two
\* links more than the pool has workers; the pages are down, but for the last.
PaceLinks == MaxWorkers + 2
PaceSites ==
  {[y \in YEARS |-> IF y = FirstYear
                     THEN [i \in 1 .. PaceLinks |-> IF i = PaceLinks THEN p ELSE DownPage]
                     ELSE <<>>] : p \in CrawlPages}

\* Sites of the download specification: one page, up, in some year.
FetchSites ==
  {s \in [YEARS -> SeqsUpTo({p \in Page : p.ok}, 1)] : SumLen(s, YEARS) = 1}

\* Sites of the race specification: the first year lists two papers, both up
\* and both with a PDF link, with any titles.
RaceSites ==
  {[y \in YEARS |-> IF y = FirstYear THEN ps ELSE <<>>] :
     ps \in [1 .. 2 -> {p \in Page : p.ok /\ p.pdf}]}

\* A task is process_paper(url) for the i-th link of a year's index page.
YearOf(t) == t[1]
LinksOf(s, y) == {<<y, i>> : i \in 1 .. Len(s[y])}
Tasks == UNION {LinksOf(site, y) : y \in YEARS}
PageOf(t) == site[YearOf(t)][t[2]]

\* pdf_url = BASE_URL + the href of the page's own PDF anchor: one per paper.
PdfUrl(t) == t

\* ------------------------------------------------------------- the files
Free == <<0, 0>>         \* nobody holds the lock
Absent == <<0, 0>>       \* no file of that name
OldPdf == <<0, 1>>       \* content of a PDF an earlier run downloaded
Truncated == <<0, 2>>    \* content of a file whose write was cut short
Hdr == <<<<0, 0>>, 2>>
OldRow == <<<<<<0, 1>>, 1>>, <<<<0, 1>>, 2>>>>
RowOf(t) == <<<<t, 1>>, <<t, 2>>>>

InitialCsvs == {<<Hdr>>, <<Hdr>> \o OldRow}

\* The lines of a file: each ends at a chunk that carries the line terminator.
RECURSIVE LinesFrom(_, _)
LinesFrom(f, cur) ==
  IF f = <<>> THEN <<>>
  ELSE IF Head(f)[2] = 2 THEN <<Append(cur, Head(f))>> \o LinesFrom(Tail(f), <<>>)
  ELSE LinesFrom(Tail(f), Append(cur, Head(f)))

Lines(f) == LinesFrom(f, <<>>)

\* What follows the last line terminator.
RECURSIVE Unterminated(_)
Unterminated(f) ==
  IF f = <<>> \/ f[Len(f)][2] = 2 THEN <<>>
  ELSE Append(Unterminated(SubSeq(f, 1, Len(f) - 1)), f[Len(f)])

CountIn(ls, t) == Cardinality({i \in 1 .. Len(ls) : ls[i] = RowOf(t)})
RowCount(f, t) == CountIn(Lines(f), t)
RowPresent(f, t) == RowCount(f, t) > 0
DataRows(f) == LET ls == Lines(f) IN {ls[i] : i \in 1 .. Len(ls)} \ {<<Hdr>>}

RECURSIVE RowsOfList(_)
RowsOfList(l) == IF l = <<>> THEN <<>> ELSE RowOf(Head(l)) \o RowsOfList(Tail(l))

\* "".join(c for c in title if c.isalnum() or c in " -_").strip()[:50]
TitleMax == 50
AlNum == {"a", "b", "0"}
IsKept(c) == c \in AlNum \/ c \in {" ", "-", "_"}

RECURSIVE Strip(_)
Strip(s) ==
  IF s = <<>> THEN s
  ELSE IF Head(s) = " " THEN Strip(Tail(s))
  ELSE IF s[Len(s)] = " " THEN Strip(SubSeq(s, 1, Len(s) - 1))
  ELSE s

Prefix(s, n) == IF Len(s) <= n THEN s ELSE SubSeq(s, 1, n)
safe_title(title) == Prefix(Strip(SelectSeq(title, IsKept)), TitleMax)

\* filename = f"{PDF_FOLDER}/{year}_{safe_title}.pdf"
FilenameOf(y, title) == <<y, safe_title(title)>>
Filename(t) == FilenameOf(YearOf(t), PageOf(t).title)
Filenames == {FilenameOf(y, ti) : y \in YEARS, ti \in Titles}

NoPace == [counting |-> FALSE, begun |-> 0, accepted |-> FALSE]
StartPace == [counting |-> TRUE, begun |-> 0, accepted |-> FALSE]

\* ------------------------------------------- the programs run on their own
\* get_paper_links and scrape_paper_data called alone, and annotation.py, have
\* their own state; while the crawler runs they stand still.
NoIndexPage == [year |-> FirstYear, ok |-> FALSE, hrefs |-> <<>>]
NoDetailPage == [ok |-> FALSE]
NoData == [null |-> TRUE]        \* None
NoCsv == [exists |-> FALSE, has_label |-> FALSE, cells |-> <<>>]
NoCall == [row |-> 0]

SideIdle ==
  /\ index_page = NoIndexPage
  /\ link_list = <<>>
  /\ linkpc = "off"
  /\ detail_page = NoDetailPage
  /\ paper_data = NoData
  /\ scrapepc = "off"
  /\ input_csv = NoCsv
  /\ output_csv = NoCsv
  /\ df = <<>>
  /\ idx = 0
  /\ annpc = "off"
  /\ runs = 0
  /\ classified = <<>>
  /\ last_call = NoCall

\* The crawler before it is started, for the specifications of the other programs.
CrawlIdle ==
  /\ site = [y \in YEARS |-> <<>>]
  /\ mainpc = "off"
  /\ year = FirstYear
  /\ exc = FALSE
  /\ pc = <<>>
  /\ result = <<>>
  /\ collected = {}
  /\ lock = Free
  /\ csv = <<Hdr>>
  /\ files = [f \in Filenames |-> Absent]
  /\ all_papers = <<>>
  /\ calls = <<>>
  /\ appendFailed = FALSE
  /\ preFinal = <<>>
  /\ pace = NoPace

\* ------------------------------------------------------------------ Init
NoCalls == [dl |-> 0, out |-> <<>>, get |-> 0, wr |-> 0, app |-> 0, run |-> 0]

\* The CSV file exists with its header (lines 30-32 create it when absent); an
\* earlier run may have left a row in it, and a PDF in the folder.
InitPaced(Sites, p) ==
  /\ site \in Sites
  /\ mainpc = "discover"
  /\ year = FirstYear
  /\ exc = FALSE
  /\ pc = [t \in Tasks |-> "none"]
  /\ result = [t \in Tasks |-> "pending"]
  /\ collected = {}
  /\ lock = Free
  /\ \E earlier \in BOOLEAN :
       /\ csv \in InitialCsvs
       /\ earlier <=> csv # <<Hdr>>
       /\ files = [f \in Filenames |->
                    IF earlier /\ f = FilenameOf(FirstYear, TitleA) THEN OldPdf ELSE Absent]
  /\ all_papers = <<>>
  /\ calls = [t \in Tasks |-> NoCalls]
  /\ appendFailed = FALSE
  /\ preFinal = <<>>
  /\ pace = p
  /\ SideIdle

InitOver(Sites) == InitPaced(Sites, NoPace)

Init == InitOver(CrawlSites)

\* ------------------------------------------------------- the worker pool
InFlightPcs == {"scrape", "fetch", "get", "append", "w"}
InFlight == {t \in Tasks : pc[t] \in InFlightPcs}
Submitted(y) == LinksOf(site, y)

\* Mutant: the executor starts a thread for every work item.
MutWorkerFree == TRUE

\* A worker thread is free to take the next work item.
WorkerFree == Cardinality(InFlight) < MaxWorkers

\* The work queue is first in, first out.
HeadOfQueue(t) ==
  /\ pc[t] = "queued"
  /\ \A u \in Tasks : (YearOf(u) = YearOf(t) /\ u[2] < t[2]) => pc[u] # "queued"

Return(t, r) ==
  /\ pc' = [pc EXCEPT ![t] = "done"]
  /\ result' = [result EXCEPT ![t] = r]

Bump(t, f) == calls' = [calls EXCEPT ![t][f] = @ + 1]

\* A worker takes process_paper(url) from the queue and issues the detail request.
Start(t) ==
  /\ HeadOfQueue(t)
  /\ WorkerFree
  /\ pc' = [pc EXCEPT ![t] = "scrape"]
  /\ Bump(t, "run")
  /\ pace' = IF pace.counting THEN [pace EXCEPT !.begun = @ + 1] ELSE pace
  /\ UNCHANGED <<site, mainpc, year, exc, result, collected, lock, csv, files,
                 all_papers, appendFailed, preFinal>>
  /\ UNCHANGED sideVars

\* Mutant: process_paper lacks "if paper_data:" and appends whatever was scraped.
MutScrape(t) ==
  /\ pc[t] = "scrape"
  /\ pc' = [pc EXCEPT ![t] = "append"]
  /\ UNCHANGED <<site, mainpc, year, exc, result, collected, lock, csv, files,
                 all_papers, calls, appendFailed, preFinal>>
  /\ UNCHANGED <<sideVars, pace>>

\* scrape_paper_data returns None (request failed) or the record; process_paper
\* then returns None, or enters download_pdf.
Scrape(t) ==
  /\ pc[t] = "scrape"
  /\ IF PageOf(t).ok
       THEN /\ pc' = [pc EXCEPT ![t] = "fetch"]
            /\ Bump(t, "dl")
            /\ UNCHANGED result
       ELSE /\ Return(t, "null")
            /\ UNCHANGED calls
  /\ UNCHANGED <<site, mainpc, year, exc, collected, lock, csv, files,
                 all_papers, appendFailed, preFinal>>
  /\ UNCHANGED <<sideVars, pace>>

\* Mutant: download_pdf lacks its guard on pdf_url.
MutFetchPlanNoGuard(page, fs, fn) == IF fs[fn] # Absent THEN "skip" ELSE "get"

\* Mutant: download_pdf does not look whether the file exists.
MutFetchPlan(page, fs, fn) == IF ~page.pdf THEN "nourl" ELSE "get"

\* download_pdf up to os.path.exists: what the call does next.
FetchPlan(page, fs, fn) ==
  IF ~page.pdf THEN "nourl"
  ELSE IF fs[fn] # Absent THEN "skip"
  ELSE "get"

\* download_pdf returns (how is noted) and process_paper goes on to append_to_csv.
ReturnFromDownload(t, how, gets, writes) ==
  /\ pc' = [pc EXCEPT ![t] = "append"]
  /\ calls' = [calls EXCEPT ![t]["out"] = Append(@, how),
                            ![t]["get"] = @ + gets,
                            ![t]["wr"] = @ + writes]

DownloadCheck(t) ==
  /\ pc[t] = "fetch"
  /\ LET plan == FetchPlan(PageOf(t), files, Filename(t)) IN
       IF plan = "get"
       THEN /\ pc' = [pc EXCEPT ![t] = "get"]
            /\ UNCHANGED calls
       ELSE ReturnFromDownload(t, plan, 0, 0)
  /\ UNCHANGED <<site, mainpc, year, exc, result, collected, lock, csv, files,
                 all_papers, appendFailed, preFinal>>
  /\ UNCHANGED <<sideVars, pace>>

\* Mutant: a failed download is not caught and ends process_paper.
MutDownloadGet(t) ==
  /\ pc[t] = "get"
  /\ \E how \in {"got", "failed", "broken"} :
       /\ files' = [files EXCEPT ![Filename(t)] =
                      IF how = "got" THEN t ELSE IF how = "broken" THEN Truncated ELSE @]
       /\ IF how = "got"
          THEN ReturnFromDownload(t, how, 1, 1) /\ UNCHANGED result
          ELSE /\ Return(t, "exc")
               /\ calls' = [calls EXCEPT ![t]["out"] = Append(@, how), ![t]["get"] = @ + 1]
  /\ UNCHANGED <<site, mainpc, year, exc, collected, lock, csv,
                 all_papers, appendFailed, preFinal>>
  /\ UNCHANGED <<sideVars, pace>>

\* requests.get(pdf_url) answers and the file is written ("got"); or the request
\* or open() raises ("failed"); or f.write raises after open() created the file
\* ("broken").  The except clause swallows the error.
DownloadGet(t) ==
  /\ pc[t] = "get"
  /\ \E how \in {"got", "failed", "broken"} :
       /\ files' = [files EXCEPT ![Filename(t)] =
                      IF how = "got" THEN t ELSE IF how = "broken" THEN Truncated ELSE @]
       /\ ReturnFromDownload(t, how, 1, IF how = "failed" THEN 0 ELSE 1)
  /\ UNCHANGED <<site, mainpc, year, exc, result, collected, lock, csv,
                 all_papers, appendFailed, preFinal>>
  /\ UNCHANGED <<sideVars, pace>>

\* ---------------------------------------------------------- append_to_csv
\* Mutant: the lock is not a lock.
MutCanAcquire == TRUE

\* "with lock:" is entered when nobody holds the lock.
CanAcquire == lock = Free

\* Mutant: the file is opened with mode="w", which empties it.
MutAppendOpen(t) ==
  /\ pc[t] = "append"
  /\ CanAcquire
  /\ lock' = t
  /\ csv' = <<<<t, 1>>>>
  /\ pc' = [pc EXCEPT ![t] = "w"]
  /\ calls' = [calls EXCEPT ![t]["app"] = @ + 1]
  /\ UNCHANGED <<site, mainpc, year, exc, result, collected, files, all_papers,
                 appendFailed, preFinal>>
  /\ UNCHANGED <<sideVars, pace>>

\* with lock: to_csv(mode="a") opens the file and writes the first chunk of the
\* row, or raises before writing (the with statement then releases the lock).
AppendOpen(t) ==
  /\ pc[t] = "append"
  /\ CanAcquire
  /\ \E fail \in BOOLEAN :
       IF fail
       THEN /\ Return(t, "exc")
            /\ appendFailed' = TRUE
            /\ UNCHANGED <<lock, csv>>
       ELSE /\ lock' = t
            /\ csv' = Append(csv, <<t, 1>>)
            /\ pc' = [pc EXCEPT ![t] = "w"]
            /\ UNCHANGED <<result, appendFailed>>
  /\ Bump(t, "app")
  /\ UNCHANGED <<site, mainpc, year, exc, collected, files, all_papers, preFinal>>
  /\ UNCHANGED <<sideVars, pace>>

\* Mutant: the lock is taken with acquire() and released only after to_csv
\* returned, so an exception leaves it held.
MutAppendClose(t) ==
  /\ pc[t] = "w"
  /\ \E fail \in BOOLEAN :
       IF fail
       THEN /\ Return(t, "exc")
            /\ appendFailed' = TRUE
            /\ UNCHANGED <<csv, lock>>
       ELSE /\ Return(t, "rec")
            /\ csv' = Append(csv, <<t, 2>>)
            /\ lock' = Free
            /\ UNCHANGED appendFailed
  /\ UNCHANGED <<site, mainpc, year, exc, collected, files, all_papers, calls, preFinal>>
  /\ UNCHANGED <<sideVars, pace>>

\* to_csv writes the rest of the row and closes the file, or raises with the
\* first chunk left in the file; either way the lock is released.
AppendClose(t) ==
  /\ pc[t] = "w"
  /\ \E fail \in BOOLEAN :
       IF fail
       THEN /\ Return(t, "exc")
            /\ appendFailed' = TRUE
            /\ UNCHANGED csv
       ELSE /\ Return(t, "rec")
            /\ csv' = Append(csv, <<t, 2>>)
            /\ UNCHANGED appendFailed
  /\ lock' = Free
  /\ UNCHANGED <<site, mainpc, year, exc, collected, files, all_papers, calls, preFinal>>
  /\ UNCHANGED <<sideVars, pace>>

\* ------------------------------------------------------- process_year, main
LastYear == FirstYear + NumYears - 1

\* process_year returns: main's for loop takes the next year, or ends.
AdvanceYear ==
  /\ year' = year + 1
  /\ mainpc' = IF year = LastYear THEN "final" ELSE "discover"

\* Mutant: get_paper_links lets the error of a failed index request escape.
MutDiscover ==
  /\ mainpc = "discover"
  /\ \E ok \in BOOLEAN :
       IF ~ok THEN mainpc' = "crashed" /\ UNCHANGED <<year, pc>>
       ELSE IF Submitted(year) = {} THEN AdvanceYear /\ UNCHANGED pc
       ELSE /\ pc' = [t \in Tasks |-> IF t \in Submitted(year) THEN "queued" ELSE pc[t]]
            /\ mainpc' = "collect"
            /\ UNCHANGED year
  /\ UNCHANGED <<site, exc, result, collected, lock, csv, files, all_papers,
                 calls, appendFailed, preFinal>>
  /\ pace' = IF pace.counting THEN StartPace ELSE pace
  /\ UNCHANGED sideVars

\* get_paper_links: the index request fails (returns []) or answers with the
\* year's links; with no links process_year returns, else it submits every link.
Discover ==
  /\ mainpc = "discover"
  /\ \E ok \in BOOLEAN :
       LET paper_links == IF ok THEN Submitted(year) ELSE {} IN
       IF paper_links = {}
       THEN AdvanceYear /\ UNCHANGED pc
       ELSE /\ pc' = [t \in Tasks |-> IF t \in paper_links THEN "queued" ELSE pc[t]]
            /\ mainpc' = "collect"
            /\ UNCHANGED year
  /\ UNCHANGED <<site, exc, result, collected, lock, csv, files, all_papers,
                 calls, appendFailed, preFinal>>
  /\ pace' = IF pace.counting THEN StartPace ELSE pace
  /\ UNCHANGED sideVars

\* Mutant: the loop over as_completed ends after the first future.
MutAllCollected(y) == \E t \in Submitted(y) : t \in collected

\* as_completed has yielded every future of the year.
AllCollected(y) == Submitted(y) \subseteq collected

\* Mutant: process_year lacks "if paper_data:" and adds every result to the list.
MutCollect(t) ==
  /\ mainpc = "collect"
  /\ YearOf(t) = year
  /\ pc[t] = "done"
  /\ t \notin collected
  /\ IF result[t] = "exc"
       THEN /\ exc' = TRUE
            /\ mainpc' = "shutdown"
            /\ UNCHANGED <<collected, all_papers, pace>>
       ELSE /\ CanAcquire
            /\ all_papers' = Append(all_papers, t)
            /\ collected' = collected \cup {t}
            /\ pace' = IF pace.counting THEN [pace EXCEPT !.begun = 0, !.accepted = TRUE]
                       ELSE pace
            /\ UNCHANGED <<exc, mainpc>>
  /\ UNCHANGED <<site, year, pc, result, lock, csv, files, calls, appendFailed, preFinal>>
  /\ UNCHANGED sideVars

\* as_completed yields a finished future; future.result() re-raises the task's
\* exception, else a record is added to all_papers under the lock.
Collect(t) ==
  /\ mainpc = "collect"
  /\ YearOf(t) = year
  /\ pc[t] = "done"
  /\ t \notin collected
  /\ IF result[t] = "exc"
       THEN /\ exc' = TRUE
            /\ mainpc' = "shutdown"
            /\ UNCHANGED <<collected, all_papers, pace>>
       ELSE /\ result[t] = "rec" => CanAcquire
            /\ all_papers' = IF result[t] = "rec" THEN Append(all_papers, t) ELSE all_papers
            /\ collected' = collected \cup {t}
            /\ pace' = IF pace.counting THEN [pace EXCEPT !.begun = 0, !.accepted = TRUE]
                       ELSE pace
            /\ UNCHANGED <<exc, mainpc>>
  /\ UNCHANGED <<site, year, pc, result, lock, csv, files, calls, appendFailed, preFinal>>
  /\ UNCHANGED sideVars

\* The for loop over as_completed ends.
LoopEnd ==
  /\ mainpc = "collect"
  /\ AllCollected(year)
  /\ mainpc' = "shutdown"
  /\ UNCHANGED <<site, year, exc, pc, result, collected, lock, csv, files,
                 all_papers, calls, appendFailed, preFinal>>
  /\ UNCHANGED <<sideVars, pace>>

\* executor.shutdown(wait=True): every submitted work item has run.
PoolDrained(y) == \A t \in Submitted(y) : pc[t] = "done"

\* The with block is left; a propagating exception leaves main uncaught.
PoolExit ==
  /\ mainpc = "shutdown"
  /\ PoolDrained(year)
  /\ IF exc
       THEN mainpc' = "crashed" /\ UNCHANGED year
       ELSE AdvanceYear
  /\ UNCHANGED <<site, exc, pc, result, collected, lock, csv, files,
                 all_papers, calls, appendFailed, preFinal>>
  /\ UNCHANGED <<sideVars, pace>>

\* if all_papers: to_csv(CSV_FILE) opens the file for writing, which empties it.
FinalOpen ==
  /\ mainpc = "final"
  /\ IF all_papers # <<>>
       THEN /\ csv' = <<>>
            /\ preFinal' = csv
            /\ mainpc' = "final_w"
       ELSE /\ mainpc' = "done"
            /\ UNCHANGED <<csv, preFinal>>
  /\ UNCHANGED <<site, year, exc, pc, result, collected, lock, files,
                 all_papers, calls, appendFailed>>
  /\ UNCHANGED <<sideVars, pace>>

\* to_csv writes the header and one row per entry of all_papers, or raises.
FinalWrite ==
  /\ mainpc = "final_w"
  /\ \E fail \in BOOLEAN :
       IF fail
       THEN mainpc' = "crashed" /\ UNCHANGED csv
       ELSE mainpc' = "done" /\ csv' = <<Hdr>> \o RowsOfList(all_papers)
  /\ UNCHANGED <<site, year, exc, pc, result, collected, lock, files,
                 all_papers, calls, appendFailed, preFinal>>
  /\ UNCHANGED <<sideVars, pace>>

Next ==
  \/ \E t \in Tasks : Start(t)
  \/ \E t \in Tasks : Scrape(t)
  \/ \E t \in Tasks : DownloadCheck(t)
  \/ \E t \in Tasks : DownloadGet(t)
  \/ \E t \in Tasks : AppendOpen(t)
  \/ \E t \in Tasks : AppendClose(t)
  \/ Discover
  \/ \E t \in Tasks : Collect(t)
  \/ LoopEnd
  \/ PoolExit
  \/ FinalOpen
  \/ FinalWrite

Spec == Init /\ [][Next]_vars

\* The same program on a site with two papers with PDFs in one year.
InitRace == InitOver(RaceSites)
SpecRace == InitRace /\ [][Next]_vars

\* The same program on a site whose first year has more links than the pool can
\* begin at once plus one, with the requests begun between acceptances counted.
InitPace == InitPaced(PaceSites, StartPace)
SpecPace == InitPace /\ [][Next]_vars

\* The same program on a site whose first year over-fills the pool.
InitPool == InitOver(PoolSites)
SpecPool == InitPool /\ [][Next]_vars

\* download_pdf(paper_data) called twice in sequence with one record: the task
\* stands at the entry of its first call; when that call has returned the record
\* is passed to download_pdf again.
InitFetch ==
  /\ site \in FetchSites
  /\ mainpc = "harness"
  /\ year = FirstYear
  /\ exc = FALSE
  /\ pc = [t \in Tasks |-> "fetch"]
  /\ result = [t \in Tasks |-> "pending"]
  /\ collected = {}
  /\ lock = Free
  /\ csv \in InitialCsvs
  /\ \E earlier \in BOOLEAN :
       files = [f \in Filenames |->
                 IF earlier /\ (\E t \in Tasks : f = Filename(t)) THEN OldPdf ELSE Absent]
  /\ all_papers = <<>>
  /\ calls = [t \in Tasks |-> [NoCalls EXCEPT !["dl"] = 1, !["run"] = 1]]
  /\ appendFailed = FALSE
  /\ preFinal = <<>>
  /\ pace = NoPace
  /\ SideIdle

SecondCall(t) ==
  /\ mainpc = "harness"
  /\ pc[t] = "append"
  /\ calls[t].dl = 1
  /\ pc' = [pc EXCEPT ![t] = "fetch"]
  /\ Bump(t, "dl")
  /\ UNCHANGED <<site, mainpc, year, exc, result, collected, lock, csv, files,
                 all_papers, appendFailed, preFinal>>
  /\ UNCHANGED <<sideVars, pace>>

NextFetch ==
  \/ \E t \in Tasks : DownloadCheck(t)
  \/ \E t \in Tasks : DownloadGet(t)
  \/ \E t \in Tasks : SecondCall(t)

SpecFetch == InitFetch /\ [][NextFetch]_vars

\* ---------------------------------------------------------- annotation.py
MaxRows == 2             \* rows of CSV_FILE
MaxRuns == 2             \* times annotation.py is started

\* A cell or a response text is a sequence of pieces of text.
LABELS == {<<"Deep Learning">>, <<"Computer Vision">>, <<"Reinforcement Learning">>,
           <<"NLP">>, <<"Optimization">>}
Other == <<"Other">>
NotLabeled == <<"N/A">>  \* the string "N/A"
NaN == <<"NaN">>         \* pandas' missing value
EmptyCell == <<>>

\* str.strip()
Whitespace == {" ", "\n"}
RECURSIVE StripWs(_)
StripWs(s) ==
  IF s = <<>> THEN s
  ELSE IF Head(s) \in Whitespace THEN StripWs(Tail(s))
  ELSE IF s[Len(s)] \in Whitespace THEN StripWs(SubSeq(s, 1, Len(s) - 1))
  ELSE s

\* model.generate_content(prompt) raises, or answers with a text.
Texts == {<<"NLP">>, <<" ", "NLP", "\n">>, <<"nlp">>, <<"Other">>}
Responses == {[raised |-> TRUE, text |-> <<>>]} \cup {[raised |-> FALSE, text |-> x] : x \in Texts}

\* Mutant: the label is returned as the service gave it.
MutClassifyPaper(resp) == IF resp.raised THEN Other ELSE StripWs(resp.text)

classify_paper(resp) ==
  IF resp.raised THEN Other
  ELSE LET label == StripWs(resp.text) IN
       IF label \notin LABELS THEN Other ELSE label

\* pd.read_csv turns an empty cell and the cell N/A into NaN; to_csv writes NaN
\* as an empty cell.
ReadCell(c) == IF c \in {EmptyCell, NotLabeled} THEN NaN ELSE c
WriteCell(v) == IF v = NaN THEN EmptyCell ELSE v
FileCells == {EmptyCell, NotLabeled, <<"NLP">>, Other}

\* CSV_FILE: missing, or without a label column (as the crawler writes it), or
\* with one.
InputCsvs ==
  {NoCsv}
  \cup {[exists |-> TRUE, has_label |-> FALSE, cells |-> [i \in 1 .. n |-> EmptyCell]] :
         n \in 0 .. MaxRows}
  \cup {[exists |-> TRUE, has_label |-> TRUE, cells |-> c] : c \in SeqsUpTo(FileCells, MaxRows)}

\* df = pd.read_csv(CSV_FILE); if "label" not in df.columns: df["label"] = "N/A"
LoadLabels(f) ==
  [i \in 1 .. Len(f.cells) |-> IF f.has_label THEN ReadCell(f.cells[i]) ELSE NotLabeled]

\* df.to_csv(OUTPUT_CSV_FILE, index=False)
SavedLabels(d) ==
  [exists |-> TRUE, has_label |-> TRUE, cells |-> [i \in 1 .. Len(d) |-> WriteCell(d[i])]]

InitAnnotate ==
  /\ CrawlIdle
  /\ index_page = NoIndexPage
  /\ link_list = <<>>
  /\ linkpc = "off"
  /\ detail_page = NoDetailPage
  /\ paper_data = NoData
  /\ scrapepc = "off"
  /\ input_csv \in InputCsvs
  /\ output_csv = NoCsv
  /\ df = <<>>
  /\ idx = 0
  /\ annpc = "start"
  /\ runs = 1
  /\ classified = [i \in 1 .. Len(input_csv.cells) |-> 0]
  /\ last_call = NoCall

\* annotate_papers up to its loop: returns when CSV_FILE is missing, else loads it.
Load ==
  /\ annpc = "start"
  /\ IF ~input_csv.exists
       THEN /\ annpc' = "returned"
            /\ UNCHANGED <<df, idx>>
       ELSE /\ df' = LoadLabels(input_csv)
            /\ idx' = 1
            /\ annpc' = IF Len(input_csv.cells) = 0 THEN "returned" ELSE "loop"
  /\ UNCHANGED <<input_csv, output_csv, runs, classified, last_call>>
  /\ UNCHANGED <<crawlVars, linkVars, scrapeVars>>

\* One pass of the loop: a row that is "N/A" or NaN is classified and its label
\* put in df; then df is saved to OUTPUT_CSV_FILE, or to_csv raises.
AnnotateRow ==
  /\ annpc = "loop"
  /\ \E resp \in Responses, saved \in BOOLEAN :
       LET unlabeled == df[idx] = NotLabeled \/ df[idx] = NaN
           label == classify_paper(resp)
           df2 == IF unlabeled THEN [df EXCEPT ![idx] = label] ELSE df
       IN  /\ df' = df2
           /\ classified' = IF unlabeled THEN [classified EXCEPT ![idx] = @ + 1] ELSE classified
           /\ last_call' = IF unlabeled THEN [row |-> idx, resp |-> resp, label |-> label]
                           ELSE last_call
           /\ IF saved
                THEN /\ output_csv' = SavedLabels(df2)
                     /\ idx' = idx + 1
                     /\ annpc' = IF idx = Len(df) THEN "returned" ELSE "loop"
                ELSE /\ annpc' = "crashed"
                     /\ UNCHANGED <<output_csv, idx>>
  /\ UNCHANGED <<input_csv, runs>>
  /\ UNCHANGED <<crawlVars, linkVars, scrapeVars>>

\* The process is stopped between two rows.
Interrupt ==
  /\ annpc = "loop"
  /\ annpc' = "stopped"
  /\ UNCHANGED <<input_csv, output_csv, df, idx, runs, classified, last_call>>
  /\ UNCHANGED <<crawlVars, linkVars, scrapeVars>>

\* annotation.py is started again.
RunAgain ==
  /\ annpc \in {"returned", "crashed", "stopped"}
  /\ runs < MaxRuns
  /\ runs' = runs + 1
  /\ annpc' = "start"
  /\ UNCHANGED <<input_csv, output_csv, df, idx, classified, last_call>>
  /\ UNCHANGED <<crawlVars, linkVars, scrapeVars>>

NextAnnotate ==
  \/ Load
  \/ AnnotateRow
  \/ Interrupt
  \/ RunAgain

SpecAnnotate == InitAnnotate /\ [][NextAnnotate]_vars

\* ------------------------------------------- strings as sequences of pieces
BASE_URL == <<"https:", "/", "/", "papers.nips.cc">>
NotAvailable == <<"N/A">>
None == <<"None">>       \* the value None where a string could stand

StartsWith(s, p) == Len(s) >= Len(p) /\ SubSeq(s, 1, Len(p)) = p
EndsWith(s, p) == Len(s) >= Len(p) /\ SubSeq(s, Len(s) - Len(p) + 1, Len(s)) = p
Contains(s, p) == \E i \in 1 .. (Len(s) - Len(p) + 1) : SubSeq(s, i, i + Len(p) - 1) = p

\* s.split("/")
RECURSIVE SplitFrom(_, _)
SplitFrom(s, cur) ==
  IF s = <<>> THEN <<cur>>
  ELSE IF Head(s) = "/" THEN <<cur>> \o SplitFrom(Tail(s), <<>>)
  ELSE SplitFrom(Tail(s), Append(cur, Head(s)))

Split(s) == SplitFrom(s, <<>>)

\* f"/paper_files/paper/{year}/"
YearPrefix(y) == <<"/", "paper_files", "/", "paper", "/", ToString(y), "/">>

\* --------------------------------------------------- get_paper_links alone
MaxLinks == 3            \* <a href> elements of an index page

\* hrefs of an index page: paper pages of a year, the same under /file/, the
\* year's own listing, and hrefs that hold the prefix but do not start with it.
FileSegment == <<"/", "file", "/">>
HrefsOf(y) ==
  {YearPrefix(y) \o <<"hash", "/", "x">>,
   YearPrefix(y) \o <<"hash", "/", "y">>,
   YearPrefix(y) \o <<"file", "/", "x">>,
   YearPrefix(y) \o <<"hash", "/", "file", "/", "x">>,
   YearPrefix(y) \o <<"file">>,
   SubSeq(YearPrefix(y), 1, 6),
   <<"/", "x">> \o YearPrefix(y) \o <<"hash", "/", "x">>}
LinkYears == {FirstYear, FirstYear + 1}
Hrefs == UNION {HrefsOf(y) : y \in LinkYears}
IndexPages == [year : LinkYears, ok : BOOLEAN, hrefs : SeqsUpTo(Hrefs, MaxLinks)]

\* Mutant: links under /file/ are taken as paper pages too.
MutIsPaperLink(href, y) == StartsWith(href, YearPrefix(y))

\* href.startswith(f"/paper_files/paper/{year}/") and "/file/" not in href
IsPaperLink(href, y) == StartsWith(href, YearPrefix(y)) /\ ~Contains(href, FileSegment)

InList(x, l) == \E i \in 1 .. Len(l) : l[i] = x

\* The loop over the anchors: links holds what is left, found the list so far.
RECURSIVE CollectLinks(_, _, _)
CollectLinks(links, y, found) ==
  IF links = <<>> THEN found
  ELSE LET href == Head(links)
           full_url == BASE_URL \o href
       IN IF IsPaperLink(href, y) /\ ~InList(full_url, found)
          THEN CollectLinks(Tail(links), y, Append(found, full_url))
          ELSE CollectLinks(Tail(links), y, found)

get_paper_links(page) ==
  IF ~page.ok THEN <<>> ELSE CollectLinks(page.hrefs, page.year, <<>>)

InitLinks ==
  /\ CrawlIdle
  /\ index_page \in IndexPages
  /\ link_list = <<>>
  /\ linkpc = "called"
  /\ detail_page = NoDetailPage
  /\ paper_data = NoData
  /\ scrapepc = "off"
  /\ input_csv = NoCsv
  /\ output_csv = NoCsv
  /\ df = <<>>
  /\ idx = 0
  /\ annpc = "off"
  /\ runs = 0
  /\ classified = <<>>
  /\ last_call = NoCall

GetPaperLinks ==
  /\ linkpc = "called"
  /\ link_list' = get_paper_links(index_page)
  /\ linkpc' = "returned"
  /\ UNCHANGED index_page
  /\ UNCHANGED <<crawlVars, scrapeVars, annVars>>

NextLinks == GetPaperLinks

SpecLinks == InitLinks /\ [][NextLinks]_vars

\* ------------------------------------------------ scrape_paper_data alone
MaxAnchors == 2          \* <a href> elements of a detail page

\* An element of the page is missing, or there with a text.
ElemTexts == {<<>>, <<"t">>, <<" ", "t", "\n">>, <<"N/A">>}
Elems == {[present |-> FALSE, text |-> <<>>]} \cup {[present |-> TRUE, text |-> x] : x \in ElemTexts}

PdfLabels == <<"Download PDF", "PDF", "Paper PDF">>
PaperHref == <<"/", "file", "/", "x", "-Paper.pdf">>
OtherHref == <<"/", "file", "/", "x", "-Bibtex.bib">>
Anchors == [string : {"PDF", "Paper PDF", "Bibtex"}, href : {PaperHref, OtherHref}]

\* The detail pages get_paper_links can hand to scrape_paper_data.
DetailUrls == {BASE_URL \o YearPrefix(y) \o <<"hash", "/", "x">> : y \in YEARS}
DetailPages ==
  [ok : BOOLEAN, url : DetailUrls, h4 : Elems, authors : Elems, abstract : Elems,
   anchors : SeqsUpTo(Anchors, MaxAnchors)]

\* x.text.strip() if x else "N/A"
TextOr(e) == IF e.present THEN StripWs(e.text) ELSE NotAvailable

\* soup.find("a", href=True, string=label): the first anchor with that string.
FindByString(as, label) ==
  IF \E i \in 1 .. Len(as) : as[i].string = label
  THEN LET i == CHOOSE i \in 1 .. Len(as) :
                  /\ as[i].string = label
                  /\ \A j \in 1 .. (i - 1) : as[j].string # label
       IN <<as[i]>>
  ELSE <<>>

\* for label in [...]: pdf_link = soup.find(...); if pdf_link: break
RECURSIVE FindByLabels(_, _)
FindByLabels(as, labels) ==
  IF labels = <<>> THEN <<>>
  ELSE IF FindByString(as, Head(labels)) # <<>> THEN FindByString(as, Head(labels))
  ELSE FindByLabels(as, Tail(labels))

\* Fallback: the first anchor whose href ends in -Paper.pdf.
FindPaperPdf(as) ==
  LET hits == SelectSeq(as, LAMBDA a : EndsWith(a.href, <<"-Paper.pdf">>))
  IN IF hits = <<>> THEN <<>> ELSE <<Head(hits)>>

PdfLink(as) == IF FindByLabels(as, PdfLabels) # <<>> THEN FindByLabels(as, PdfLabels)
               ELSE FindPaperPdf(as)

\* Mutant: a page without an <h4> makes the whole extraction fail.
MutScrapePaperData(page) ==
  IF ~page.ok \/ ~page.h4.present THEN NoData
  ELSE [null |-> FALSE, title |-> TextOr(page.h4), authors |-> TextOr(page.authors),
        abstract |-> TextOr(page.abstract),
        pdf_url |-> IF PdfLink(page.anchors) # <<>>
                    THEN BASE_URL \o PdfLink(page.anchors)[1].href ELSE None,
        year |-> Split(page.url)[6]]

scrape_paper_data(page) ==
  IF ~page.ok THEN NoData
  ELSE [null |-> FALSE, title |-> TextOr(page.h4), authors |-> TextOr(page.authors),
        abstract |-> TextOr(page.abstract),
        pdf_url |-> IF PdfLink(page.anchors) # <<>>
                    THEN BASE_URL \o PdfLink(page.anchors)[1].href ELSE None,
        year |-> Split(page.url)[6]]

InitScrape ==
  /\ CrawlIdle
  /\ index_page = NoIndexPage
  /\ link_list = <<>>
  /\ linkpc = "off"
  /\ detail_page \in DetailPages
  /\ paper_data = NoData
  /\ scrapepc = "called"
  /\ input_csv = NoCsv
  /\ output_csv = NoCsv
  /\ df = <<>>
  /\ idx = 0
  /\ annpc = "off"
  /\ runs = 0
  /\ classified = <<>>
  /\ last_call = NoCall

ScrapePaperData ==
  /\ scrapepc = "called"
  /\ paper_data' = scrape_paper_data(detail_page)
  /\ scrapepc' = "returned"
  /\ UNCHANGED detail_page
  /\ UNCHANGED <<crawlVars, linkVars, annVars>>

NextScrape == ScrapePaperData

SpecScrape == InitScrape /\ [][NextScrape]_vars

\* ------------------------------------------------------------ the claims
Exists(t) == pc[t] # "none"
Appended == {t \in Tasks : result[t] = "rec"}
FinalNotOpened == preFinal = <<>>
PoolIdle == \A t \in Tasks : pc[t] \in {"none", "done"}

Writers == {t \in Tasks : pc[t] = "w"}

\* C2: at most one writer has the CSV file open at a time, a worker that writes
\* holds the lock, and the final write runs when no worker is writing.
C2_SingleWriter ==
  /\ Cardinality(Writers) + (IF mainpc = "final_w" THEN 1 ELSE 0) <= 1
  /\ \A t \in Writers : lock = t

\* A worker is writing its row while another waits at "with lock".
C2_Witness == \E t, u \in Tasks : pc[t] = "w" /\ pc[u] = "append" /\ lock = t

\* C3 as stated: a row that is in the CSV file is in it in every later state.
C3_AppendedRowsStay ==
  [][\A t \in Tasks : RowPresent(csv, t) => RowPresent(csv', t)]_vars

\* C4 as stated: after the final write the file holds the rows it held when the
\* final write began.
C4_FinalWriteRedundant ==
  (mainpc = "done" /\ ~FinalNotOpened) => DataRows(csv) = DataRows(preFinal)

\* C5 as stated: no failure of a worker task leaves process_year as an exception.
C5_NothingSurfaced == ~(mainpc = "crashed" /\ exc)

ChunksOf(f, t) == {i \in 1 .. Len(f) : f[i][1] = t}
InAggregate(t) == \E i \in 1 .. Len(all_papers) : all_papers[i] = t
PoolLeft(y) == y < year \/ mainpc \in {"final", "final_w", "done", "crashed"}

\* C6: a task whose extraction returned null has written nothing to the CSV file
\* and has no entry in all_papers; and once process_year has left the pool,
\* every task it submitted has been run by a worker exactly once and has finished.
C6_NullTaskIsInert ==
  \A t \in Tasks :
    /\ ~PageOf(t).ok => (ChunksOf(csv, t) = {} /\ ~InAggregate(t) /\ calls[t].app = 0)
    /\ (~PageOf(t).ok /\ pc[t] = "done") => result[t] = "null"
    /\ (Exists(t) /\ PoolLeft(YearOf(t))) => (pc[t] = "done" /\ calls[t].run = 1)
    /\ calls[t].run <= 1

\* A year is over in which one task returned null and a sibling's row was appended.
C6_Witness ==
  \E t, u \in Tasks :
    /\ YearOf(t) = YearOf(u) /\ PoolLeft(YearOf(t))
    /\ result[t] = "null" /\ result[u] = "rec" /\ RowPresent(csv, u)

\* Where a task stands against the calls it has made: download_pdf is entered
\* once, append_to_csv once and only after download_pdf has returned.
C7_Order ==
  \A t \in Tasks :
    /\ pc[t] \in {"fetch", "get"} =>
         (calls[t].dl = 1 /\ calls[t].out = <<>> /\ calls[t].app = 0)
    /\ pc[t] = "append" =>
         (calls[t].dl = 1 /\ Len(calls[t].out) = 1 /\ calls[t].app = 0)
    /\ (pc[t] = "w" \/ (pc[t] = "done" /\ PageOf(t).ok)) =>
         (calls[t].dl = 1 /\ Len(calls[t].out) = 1 /\ calls[t].app = 1)
    /\ (pc[t] = "done" /\ ~PageOf(t).ok) => (calls[t].dl = 0 /\ calls[t].app = 0)

\* A step of download_pdf leaves the CSV file as it is.
C7_DownloadLeavesCsv ==
  \A t \in Tasks : (pc[t] \in {"fetch", "get"} /\ pc'[t] # pc[t]) => csv' = csv

\* C7: a task with a non-null record enters download_pdf once, enters
\* append_to_csv once and only after download_pdf has returned, whatever the
\* download's outcome; and no step of download_pdf changes the CSV file.
C7_FetchThenAppendOnce == [](C7_Order) /\ [][C7_DownloadLeavesCsv]_vars

\* A row with a pdf_url whose download failed: the row is in the file, no file
\* of its name is in the folder.
C7_Witness ==
  \E t \in Tasks :
    /\ PageOf(t).pdf /\ calls[t].out = <<"failed">> /\ result[t] = "rec"
    /\ RowPresent(csv, t) /\ files[Filename(t)] = Absent

\* C8: every task that is queued or in flight belongs to the year main's loop is
\* at, and every task submitted for an earlier year has finished and has been
\* collected.
C8_YearsSequential ==
  \A t \in Tasks :
    /\ pc[t] \notin {"none", "done"} => YearOf(t) = year
    /\ (Exists(t) /\ YearOf(t) < year) => (pc[t] = "done" /\ t \in collected)
    /\ (Exists(t) /\ mainpc = "discover") => YearOf(t) < year

\* A task of the second year is in flight after a task of the first was collected.
C8_Witness ==
  \E t, u \in Tasks :
    /\ YearOf(t) < YearOf(u)
    /\ t \in collected /\ pc[u] \in InFlightPcs

\* C9: at most max_workers tasks are in flight at a time.
C9_PoolBound == Cardinality(InFlight) <= MaxWorkers

\* The pool is full and a submitted task waits in the queue.
C9_Witness ==
  /\ Cardinality(InFlight) = MaxWorkers
  /\ \E t \in Tasks : pc[t] = "queued"
  /\ \E t \in Tasks : pc[t] \in {"append", "w"}

NoOps == {"nourl", "skip"}

\* C10 as stated: the second of two download_pdf calls with one record issues no
\* request and writes no file, however the first call ended.
C10_SecondCallNoOp ==
  \A t \in Tasks : Len(calls[t].out) = 2 => calls[t].out[2] \in NoOps

\* C10 (as amended): over two download_pdf calls with one record the file is
\* written at most once and a file that was there is left as it was; the second
\* call issues no request and writes no file unless the first call's download
\* failed before the file was created, and then it issues the request again.
C10_IdempotentUnlessFailed ==
  \A t \in Tasks :
    LET out == calls[t].out IN
    /\ calls[t].wr <= 1
    /\ calls[t].wr = 1 => files[Filename(t)] \in {t, Truncated}
    /\ (out # <<>> /\ out[1] = "skip") => (files[Filename(t)] = OldPdf /\ calls[t].wr = 0)
    /\ (Len(out) = 2 /\ out[1] # "failed") =>
         (out[2] \in NoOps /\ calls[t].get = IF out[1] \in {"got", "broken"} THEN 1 ELSE 0)
    /\ (Len(out) = 2 /\ out[1] = "failed") =>
         (out[2] \in {"got", "failed", "broken"} /\ calls[t].get = 2)

\* The first call downloaded the file and the second call skipped it.
C10_Witness == \E t \in Tasks : calls[t].out = <<"got", "skip">>

\* C11 as stated: two tasks that both passed os.path.exists and wrote the same
\* filename wrote the PDF of the same pdf_url.
C11_SameNameSameContent ==
  \A t, u \in Tasks :
    (calls[t].out = <<"got">> /\ calls[u].out = <<"got">> /\ Filename(t) = Filename(u))
      => PdfUrl(t) = PdfUrl(u)

\* A row carries a real label in OUTPUT_CSV_FILE, where the pass persists them.
Labeled(i) ==
  /\ output_csv.exists
  /\ i <= Len(output_csv.cells)
  /\ output_csv.cells[i] \in LABELS \cup {Other}

\* C12 as stated: a row that an earlier pass labeled and persisted is not
\* classified again and keeps its label, whatever run of annotation.py is going.
C12_LabeledRowsSkipped ==
  [][\A i \in DOMAIN classified :
       Labeled(i) => /\ classified'[i] = classified[i]
                     /\ output_csv'.cells[i] = output_csv.cells[i]]_vars

\* The index page of the year lists papers, and process_year returns without
\* entering the pool: get_paper_links returned [] because the request failed.
DiscoveryFailed == mainpc = "discover" /\ Submitted(year) # {} /\ mainpc' # "collect"

\* The step of a failed discovery: nothing but main's loop moves, and it moves to
\* the next year (or past the last one).
C13_FailedStep ==
  DiscoveryFailed =>
    /\ UNCHANGED <<pc, result, collected, calls, lock, csv, files, all_papers, exc>>
    /\ year' = year + 1
    /\ mainpc' = IF year = LastYear THEN "final" ELSE "discover"

\* A task of a year that is over and was never submitted has done nothing.
C13_NeverSubmitted ==
  \A t \in Tasks :
    (YearOf(t) < year /\ pc[t] = "none") =>
      /\ calls[t] = NoCalls /\ result[t] = "pending" /\ t \notin collected
      /\ ChunksOf(csv, t) = {} /\ ~InAggregate(t)

\* C13: when the index request of a year fails, process_year returns at once:
\* no task is submitted then or later for that year, no detail page or PDF is
\* requested, the CSV file, the PDF folder and all_papers are left as they were,
\* and main goes on to the next year.
C13_FailedDiscoverySkipsYear == [](C13_NeverSubmitted) /\ [][C13_FailedStep]_vars

\* The first year's discovery failed though its index page lists a paper, and
\* main has gone on: a task of the second year is in flight.
C13_Witness ==
  \E t, u \in Tasks :
    /\ YearOf(t) < YearOf(u)
    /\ pc[t] = "none" /\ pc[u] \in InFlightPcs

\* The detail page a page of the crawled site stands for: its PDF anchor is
\* there or not, and the other anchor matches neither stage of the search.
DetailOf(t) ==
  [ok |-> PageOf(t).ok,
   url |-> BASE_URL \o YearPrefix(YearOf(t)) \o <<"hash", "/", "x">>,
   h4 |-> [present |-> TRUE, text |-> PageOf(t).title],
   authors |-> [present |-> TRUE, text |-> <<"t">>],
   abstract |-> [present |-> TRUE, text |-> <<"t">>],
   anchors |-> IF PageOf(t).pdf
               THEN <<[string |-> "Bibtex", href |-> OtherHref], [string |-> "PDF", href |-> PaperHref]>>
               ELSE <<[string |-> "Bibtex", href |-> OtherHref]>>]

NoPdfUrl(t) == PageOf(t).ok /\ ~PageOf(t).pdf

\* What a task whose record has no pdf_url has done so far.
C14_NoUrlCalls ==
  \A t \in Tasks :
    NoPdfUrl(t) =>
      /\ scrape_paper_data(DetailOf(t)).pdf_url = None
      /\ scrape_paper_data(DetailOf(t)).pdf_url # NotAvailable
      /\ calls[t].get = 0 /\ calls[t].wr = 0
      /\ calls[t].out \in {<<>>, <<"nourl">>}
      /\ files[Filename(t)] # t
      /\ pc[t] \in {"w", "done"} => (calls[t].out = <<"nourl">> /\ calls[t].app = 1)
      /\ pc[t] = "done" => result[t] \in {"rec", "exc"}
      /\ (result[t] = "rec" /\ FinalNotOpened /\ ~appendFailed) => RowPresent(csv, t)

\* The step of download_pdf for such a task: it returns to process_paper, which
\* goes on to append_to_csv; no file and no other state changes.
C14_NoUrlStep ==
  \A t \in Tasks :
    (NoPdfUrl(t) /\ pc[t] = "fetch" /\ pc'[t] # pc[t]) =>
      /\ pc'[t] = "append"
      /\ UNCHANGED <<files, csv, result, all_papers, lock, mainpc>>

\* C14: for a record whose pdf_url is None (not the string N/A), download_pdf
\* issues no request, creates or changes no file and raises nothing, and
\* process_paper still calls append_to_csv with the record: its row is in the
\* CSV file once that call has completed (while no append has left a cut row
\* in the file, and until the final write).
C14_AbsentUrlIsNoOp == [](C14_NoUrlCalls) /\ [][C14_NoUrlStep]_vars

\* A paper without a PDF link: its row is in the file, download_pdf returned at
\* its guard, and no file of its name is in the folder.
C14_Witness ==
  \E t \in Tasks :
    /\ NoPdfUrl(t) /\ calls[t].out = <<"nourl">> /\ result[t] = "rec"
    /\ RowPresent(csv, t) /\ files[Filename(t)] = Absent

\* The hrefs of the page that qualify, by a reading of the page that does not
\* follow the loop: the positions of the qualifying hrefs that no earlier
\* position repeats.
Qualifies(href, y) ==
  /\ Len(href) >= 7
  /\ \A k \in 1 .. 7 : href[k] = YearPrefix(y)[k]
  /\ ~\E k \in 1 .. (Len(href) - 2) : href[k] = "/" /\ href[k + 1] = "file" /\ href[k + 2] = "/"
FirstSeen(hrefs, y) ==
  {i \in 1 .. Len(hrefs) :
     Qualifies(hrefs[i], y) /\ \A j \in 1 .. (i - 1) : hrefs[j] # hrefs[i]}

\* C15: for an index page that was fetched, the list get_paper_links returns
\* holds BASE_URL + href for exactly the hrefs that start with
\* /paper_files/paper/{year}/ and do not contain /file/, each once, in the order
\* of their first place on the page.
C15_LinksFilteredOnceInOrder ==
  (linkpc = "returned" /\ index_page.ok) =>
    LET hrefs == index_page.hrefs
        y == index_page.year
        first == FirstSeen(hrefs, y)
    IN /\ Len(link_list) = Cardinality(first)
       /\ \A k \in 1 .. Len(link_list) :
            \E i \in first :
              /\ link_list[k] = BASE_URL \o hrefs[i]
              /\ Cardinality({j \in first : j < i}) = k - 1

\* The page held a paper link twice, a /file/ link of the year and a link of
\* another year, and one link was returned.
C15_Witness ==
  /\ linkpc = "returned" /\ index_page.ok /\ Len(link_list) = 1
  /\ \E i, j, k \in 1 .. Len(index_page.hrefs) :
       /\ i < j /\ index_page.hrefs[i] = index_page.hrefs[j]
       /\ Qualifies(index_page.hrefs[i], index_page.year)
       /\ Contains(index_page.hrefs[k], FileSegment)
       /\ StartsWith(index_page.hrefs[k], YearPrefix(index_page.year))

\* What a field of the record must hold for an element of the page.
FieldFor(e, v) == IF e.present THEN v = StripWs(e.text) ELSE v = NotAvailable

\* C16: for a detail page that was fetched, whichever of <h4>, p.authors and
\* p.abstract are missing, scrape_paper_data returns a record and not None; in it
\* each missing field is "N/A" and each present field is its stripped text.
C16_MissingFieldsGetSentinel ==
  (scrapepc = "returned" /\ detail_page.ok) =>
    /\ paper_data # NoData
    /\ ~paper_data.null
    /\ FieldFor(detail_page.h4, paper_data.title)
    /\ FieldFor(detail_page.authors, paper_data.authors)
    /\ FieldFor(detail_page.abstract, paper_data.abstract)

\* A page without <h4> and without p.authors but with an abstract was scraped.
C16_Witness ==
  /\ scrapepc = "returned" /\ detail_page.ok
  /\ ~detail_page.h4.present /\ ~detail_page.authors.present
  /\ detail_page.abstract = [present |-> TRUE, text |-> <<" ", "t", "\n">>]
  /\ paper_data.title = NotAvailable /\ paper_data.abstract = <<"t">>

Called == last_call.row # 0

\* C17 as stated: when the classification call raised or its text is not one of
\* LABELS, the label classify_paper returns is "Other".
C17_OutsideGivesOther ==
  (Called /\ (last_call.resp.raised \/ last_call.resp.text \notin LABELS)) =>
    last_call.label = Other

\* The label of the last classify_paper call against the response it got.
C17_LastLabel ==
  Called =>
    LET resp == last_call.resp
        label == last_call.label
    IN /\ label \in LABELS \cup {Other}
       /\ (resp.raised \/ StripWs(resp.text) \notin LABELS) => label = Other
       /\ (~resp.raised /\ StripWs(resp.text) \in LABELS) => label = StripWs(resp.text)

\* The step that classifies a row puts the label in df, whatever the call did,
\* and the save that follows writes it to OUTPUT_CSV_FILE.
C17_Stored ==
  \A i \in DOMAIN classified :
    classified'[i] # classified[i] =>
      /\ last_call'.row = i
      /\ df'[i] = last_call'.label
      /\ annpc' # "crashed" => output_csv'.cells[i] = last_call'.label

\* C17 (as amended): every label the pass writes is one of LABELS or "Other";
\* when the classification call raised, or its text with the surrounding
\* whitespace stripped is not one of LABELS, the label stored is "Other", and a
\* text that is one of LABELS once stripped is stored as that label; the loop
\* goes on to store and save the label whatever the call did.
C17_LabelValidated == [](C17_LastLabel) /\ [][C17_Stored]_vars

\* The service answered with a text outside LABELS and "Other" was saved.
C17_Witness ==
  /\ Called /\ ~last_call.resp.raised /\ last_call.resp.text = <<"nlp">>
  /\ output_csv.exists /\ output_csv.cells[last_call.row] = Other

\* C18 as stated: when main accepts a result after an earlier one of the year,
\* the pool has begun at most max_workers detail requests since that earlier
\* acceptance.
C18_BegunBetweenAcceptances ==
  [][(pace.accepted /\ collected' # collected) => pace.begun <= MaxWorkers]_vars

\* process_year has returned normally from every year main has given it.
ReturnedNormally == mainpc \in {"discover", "final", "final_w", "done"}

\* C19: every entry of all_papers is a record whose append_to_csv call of this
\* run has completed; no record is in the list twice; and when process_year has
\* returned normally the list holds exactly the records appended so far.
C19_AggregateIsAppended ==
  /\ \A i \in 1 .. Len(all_papers) :
       /\ all_papers[i] \in Tasks
       /\ result[all_papers[i]] = "rec"
       /\ calls[all_papers[i]].app = 1
       /\ \A j \in 1 .. Len(all_papers) : all_papers[j] = all_papers[i] => j = i
  /\ ReturnedNormally => \A t \in Tasks : result[t] = "rec" => InAggregate(t)

\* The run has passed its last year with one record appended and in the list,
\* beside a task whose extraction returned None.
C19_Witness ==
  /\ mainpc = "final"
  /\ \E t, u \in Tasks : InAggregate(t) /\ RowPresent(csv, t) /\ result[u] = "null"

\* A worker is in a request to the server: the detail page or the PDF.
InRequest(t) == pc[t] \in {"scrape", "get"}

\* C20: the lock is held only by a worker inside to_csv in append_to_csv: never
\* by a worker that is queued, in a request, in download_pdf, waiting for the
\* lock or finished (with a result or an exception), and never by main across
\* its wait for a future.  So the holder can always go on and release it, and a
\* worker waiting to append waits only for a holder that is writing.
C20_LockOnlyWhileWriting ==
  /\ lock # Free => (lock \in Tasks /\ pc[lock] = "w")
  /\ \A t \in Tasks : pc[t] = "w" => lock = t
  /\ \A t \in Tasks : (InRequest(t) \/ pc[t] \in {"fetch", "append", "done"}) => lock # t
  /\ (\A t \in Tasks : pc[t] # "w") => lock = Free

\* An append raised and released the lock: another worker holds it now, writing.
C20_Witness ==
  \E t, u \in Tasks :
    /\ result[t] = "exc" /\ calls[t].app = 1
    /\ lock = u /\ pc[u] = "w"
====
